---- MODULE Spec2Model ----
(***************************************************************************)
(* EditFlow planner data layer (src/src/hooks/usePlannerData.ts): the      *)
(* local job and editor collections held by the usePlannerData hook, the   *)
(* backend tables they are persisted to, and the persistence requests in   *)
(* flight between the two.                                                 *)
(***************************************************************************)
EXTENDS Integers, Sequences, FiniteSets, TLC

\* ------------------------------------------------------------------ bounds
MaxLen == 3          \* jobs in a collection the model starts from
MaxOrder == 3        \* largest order value a job may take
MaxMoves == 3        \* moves in one run of the ordering engine
MaxPending == 2      \* requests awaited at the same time
MaxOps == 2          \* handler invocations in one run of the sync controller
MaxEditors == 10     \* editors of an account when addEditor is looked at alone
MaxHours == 15       \* largest estimatedHours of a job when the load is looked at alone

\* ------------------------------------------------------------ value domains
EditorIds == {"e1", "e2"}
Days == {0, 1}
Weeks == {"w1", "w2"}
Orders == 0..MaxOrder
Capacities == {0, 20}
NoUser == "nobody"
NoEditor == "none"
NoWeek == "none"

VARIABLES
  user,                 \* useAuth().user: the signed-in user or NoUser
  currentWeekStartStr,  \* the selected week
  jobs,                 \* useState<Job[]>: the local job collection (an array)
  editors,              \* useState<Editor[]>: the local editor collection
  dbJobs,               \* backend table "jobs": a set of rows
  dbEditors,            \* backend table "editors": a set of rows
  pending,              \* requests a handler is awaiting: a set of records
  nextId,               \* next identifier the backend gives an inserted job
  ops,                  \* number of handler invocations so far
  pre,                  \* the local job collection before the last step
  last                  \* the last step: operation, arguments, what it did

vars == <<user, currentWeekStartStr, jobs, editors, dbJobs, dbEditors,
          pending, nextId, ops, pre, last>>

\* ------------------------------------------------------------------- jobs
\* interface Job, restricted to the fields the data layer computes with;
\* estimatedHours stands for the payload fields a mutation carries along.
Job(id, editorId, scheduledDate, weekStart, estimatedHours, order) ==
  [id |-> id, editorId |-> editorId, scheduledDate |-> scheduledDate,
   weekStart |-> weekStart, estimatedHours |-> estimatedHours, order |-> order]

\* interface Editor
Editor(id, weeklyCapacity) == [id |-> id, weeklyCapacity |-> weeklyCapacity]

\* The derived grouping key of a job (spec: Cell).
CellOf(j) == <<j.editorId, j.scheduledDate, j.weekStart>>

AllCells == EditorIds \X Days \X Weeks

\* Indices of the jobs of a collection that lie in a cell.
CellIdx(js, c) == {i \in 1..Len(js) : CellOf(js[i]) = c}

CellOrders(js, c) == {js[i].order : i \in CellIdx(js, c)}

\* order values of the cell are exactly 0..n-1, one job each
Contiguous(js, c) ==
  /\ CellOrders(js, c) = 0..(Cardinality(CellIdx(js, c)) - 1)
  /\ \A i, k \in CellIdx(js, c) : i # k => js[i].order # js[k].order

AllContiguous(js) == \A c \in AllCells : Contiguous(js, c)

\* prev.findIndex(j => j.id === jobId): -1 when absent
FindIndex(prev, jobId) ==
  IF \E i \in 1..Len(prev) : prev[i].id = jobId
  THEN CHOOSE i \in 1..Len(prev) :
         /\ prev[i].id = jobId
         /\ \A k \in 1..(i - 1) : prev[k].id # jobId
  ELSE -1

\* the comparison of the days lost
WasInSameCell_sameEditor(job, newEditorId, newDayIndex) ==
  job.editorId = newEditorId

\* wasInSameCell
WasInSameCell(job, newEditorId, newDayIndex) ==
  job.editorId = newEditorId /\ job.scheduledDate = newDayIndex

\* the same guard with the week comparison lost
InDestCell_anyWeek(j, job, jobId, newEditorId, newDayIndex) ==
  /\ j.editorId = newEditorId
  /\ j.scheduledDate = newDayIndex
  /\ j.id # jobId

\* the guard of "Reorder other jobs in the destination cell"
InDestCell(j, job, jobId, newEditorId, newDayIndex) ==
  /\ j.editorId = newEditorId
  /\ j.scheduledDate = newDayIndex
  /\ j.weekStart = job.weekStart
  /\ j.id # jobId

\* the branch with the upper end of the first range left out
ShiftSameCell_openEnd(order, oldOrder, newOrder) ==
  IF newOrder > oldOrder /\ order > oldOrder /\ order < newOrder
  THEN order - 1
  ELSE IF newOrder < oldOrder /\ order >= newOrder /\ order < oldOrder
       THEN order + 1
       ELSE order

\* the branch with the lower end of the second range left out
ShiftSameCell_openStart(order, oldOrder, newOrder) ==
  IF newOrder > oldOrder /\ order > oldOrder /\ order <= newOrder
  THEN order - 1
  ELSE IF newOrder < oldOrder /\ order > newOrder /\ order < oldOrder
       THEN order + 1
       ELSE order

\* the branch making room as a move from another cell does
ShiftSameCell_makeRoom(order, oldOrder, newOrder) ==
  IF order >= newOrder THEN order + 1 ELSE order

\* the wasInSameCell branch: the new order of another job of the cell
ShiftSameCell(order, oldOrder, newOrder) ==
  IF newOrder > oldOrder /\ order > oldOrder /\ order <= newOrder
  THEN order - 1
  ELSE IF newOrder < oldOrder /\ order >= newOrder /\ order < oldOrder
       THEN order + 1
       ELSE order

\* the else branch leaving the job at the requested place where it is
ShiftCrossCell_after(order, newOrder) ==
  IF order > newOrder THEN order + 1 ELSE order

\* the else branch: the new order of a job of the destination cell
ShiftCrossCell(order, newOrder) ==
  IF order >= newOrder THEN order + 1 ELSE order

\* The updater moveJob hands to setJobs (spec: planMove).
planMove(prev, jobId, newEditorId, newDayIndex, newOrder) ==
  LET jobIndex == FindIndex(prev, jobId) IN
  IF jobIndex = -1 THEN prev
  ELSE
    LET job == prev[jobIndex]
        wasInSameCell == WasInSameCell(job, newEditorId, newDayIndex)
    IN [i \in 1..Len(prev) |->
          LET j == prev[i] IN
          IF j.id = jobId
          THEN [j EXCEPT !.editorId = newEditorId,
                         !.scheduledDate = newDayIndex,
                         !.order = newOrder]
          ELSE IF InDestCell(j, job, jobId, newEditorId, newDayIndex)
               THEN IF wasInSameCell
                    THEN [j EXCEPT !.order = ShiftSameCell(j.order, job.order, newOrder)]
                    ELSE [j EXCEPT !.order = ShiftCrossCell(j.order, newOrder)]
               ELSE j]

\* ------------------------------------------------------- requests in flight
\* A request a handler awaits: n numbers the invocation, stage is the await
\* the handler stands at, arg carries a further argument of the operation.
\* from is the editor a bulk update filters by.
Req(n, op, stage, id, from, editorId, scheduledDate, weekStart, order, arg) ==
  [n |-> n, op |-> op, stage |-> stage, id |-> id, from |-> from,
   editorId |-> editorId, scheduledDate |-> scheduledDate,
   weekStart |-> weekStart, order |-> order, arg |-> arg]

\* the request sent before the job is looked up
moveJobRequests_always(n, prev, jobId, newEditorId, newDayIndex, newOrder) ==
  {Req(n, "moveJob", "update", jobId, NoEditor, newEditorId, newDayIndex,
       NoWeek, newOrder, -1)}

\* The request the updater's background block sends: one update of the
\* moved job, none when the job was not found (the updater returned early).
moveJobRequests(n, prev, jobId, newEditorId, newDayIndex, newOrder) ==
  IF FindIndex(prev, jobId) = -1 THEN {}
  ELSE {Req(n, "moveJob", "update", jobId, NoEditor, newEditorId, newDayIndex,
            NoWeek, newOrder, -1)}

\* ------------------------------------------------------------ last step
\* phase "invoke": a handler ran up to its first await; phase "settle": an
\* awaited request completed and the handler ran on.  notice is the toast the
\* step raised, reload whether it invoked fetchData.
Step(phase, op, id, editorId, scheduledDate, order, outcome, notice, reload) ==
  [phase |-> phase, op |-> op, id |-> id, editorId |-> editorId,
   scheduledDate |-> scheduledDate, order |-> order, outcome |-> outcome,
   notice |-> notice, reload |-> reload]

\* Fields an operation does not use hold -1 (numbers) or "none" (strings).
NoStep == Step("init", "init", -1, NoEditor, -1, -1, "none", "none", FALSE)

OrdersWithin(js) == \A i \in 1..Len(js) : js[i].order \in Orders

\* moveJob: the updater applied to the local collection and its background
\* request put in flight.
moveJob(jobId, newEditorId, newDayIndex, newOrder) ==
  LET updatedJobs == planMove(jobs, jobId, newEditorId, newDayIndex, newOrder) IN
  /\ OrdersWithin(updatedJobs)
  /\ jobs' = updatedJobs
  /\ pending' = pending \cup
       moveJobRequests(ops, jobs, jobId, newEditorId, newDayIndex, newOrder)
  /\ ops' = ops + 1
  /\ pre' = jobs
  /\ last' = Step("invoke", "moveJob", jobId, newEditorId, newDayIndex, newOrder,
                  IF FindIndex(jobs, jobId) = -1 THEN "notfound" ELSE "moved",
                  "none", FALSE)
  /\ UNCHANGED <<user, currentWeekStartStr, editors, dbJobs, dbEditors, nextId>>

\* ------------------------------------------------------------ fetchData
\* The rows of the jobs table as the array fetchData maps them to (the
\* mapping renames columns and keeps values); rows are taken by ascending id.
RECURSIVE RowsById(_)
RowsById(rows) ==
  IF rows = {} THEN <<>>
  ELSE LET r == CHOOSE x \in rows : \A y \in rows : x.id <= y.id
       IN <<r>> \o RowsById(rows \ {r})

\* fetchData up to its first await: without a user it clears both
\* collections and returns, with one it awaits the select of the editors.
fetchDataRequests(n) ==
  IF user = NoUser THEN {}
  ELSE {Req(n, "fetchData", "editors", -1, NoEditor, NoEditor, -1, NoWeek, -1, -1)}

fetchDataJobs(js) == IF user = NoUser THEN <<>> ELSE js

fetchDataEditors(es) == IF user = NoUser THEN <<>> ELSE es

\* ------------------------------------------------- handlers, up to the await
\* addJob: the order is the number of local jobs of the target cell in the
\* selected week; nothing is added locally before the insert returns.
addJob(editorId, scheduledDate, estimatedHours) ==
  LET newJobOrder ==
        Cardinality(CellIdx(jobs, <<editorId, scheduledDate, currentWeekStartStr>>))
  IN
  /\ newJobOrder \in Orders
  /\ pending' = pending \cup
       (IF user = NoUser THEN {}
        ELSE {Req(ops, "addJob", "insert", -1, NoEditor, editorId, scheduledDate,
                  currentWeekStartStr, newJobOrder, estimatedHours)})
  /\ ops' = ops + 1
  /\ pre' = jobs
  /\ last' = Step("invoke", "addJob", -1, editorId, scheduledDate, newJobOrder,
                  IF user = NoUser THEN "nouser" ELSE "sent", "none", FALSE)
  /\ UNCHANGED <<user, currentWeekStartStr, jobs, editors, dbJobs, dbEditors, nextId>>

\* { ...job, ...updates }: a field of updates holding -1 or "none" is absent
MergeJob(job, updates) ==
  [job EXCEPT
     !.editorId = IF updates.editorId # NoEditor THEN updates.editorId ELSE @,
     !.scheduledDate = IF updates.scheduledDate # -1 THEN updates.scheduledDate ELSE @,
     !.order = IF updates.order # -1 THEN updates.order ELSE @]

\* Partial<Job> values: one of editorId, scheduledDate, order is present
JobUpdates ==
  {[editorId |-> e, scheduledDate |-> -1, order |-> -1] : e \in EditorIds}
  \cup {[editorId |-> NoEditor, scheduledDate |-> d, order |-> -1] : d \in Days}
  \cup {[editorId |-> NoEditor, scheduledDate |-> -1, order |-> o] : o \in Orders}

\* updateJob: optimistic update, then the update request
updateJob(jobId, updates) ==
  /\ jobs' = [i \in 1..Len(jobs) |->
                IF jobs[i].id = jobId THEN MergeJob(jobs[i], updates) ELSE jobs[i]]
  /\ pending' = pending \cup
       {Req(ops, "updateJob", "update", jobId, NoEditor, updates.editorId,
            updates.scheduledDate, NoWeek, updates.order, -1)}
  /\ ops' = ops + 1
  /\ pre' = jobs
  /\ last' = Step("invoke", "updateJob", jobId, updates.editorId,
                  updates.scheduledDate, updates.order, "sent", "none", FALSE)
  /\ UNCHANGED <<user, currentWeekStartStr, editors, dbJobs, dbEditors, nextId>>

\* prev.filter(job => job.id !== jobId)
RECURSIVE WithoutJob(_, _)
WithoutJob(js, jobId) ==
  IF js = <<>> THEN <<>>
  ELSE IF Head(js).id = jobId THEN WithoutJob(Tail(js), jobId)
       ELSE <<Head(js)>> \o WithoutJob(Tail(js), jobId)

\* the removal applied to the rows last loaded instead of the local state
deleteJob_fromLoaded(jobId) ==
  /\ jobs' = WithoutJob(RowsById(dbJobs), jobId)
  /\ pending' = pending \cup
       {Req(ops, "deleteJob", "delete", jobId, NoEditor, NoEditor, -1, NoWeek, -1, -1)}
  /\ ops' = ops + 1
  /\ pre' = jobs
  /\ last' = Step("invoke", "deleteJob", jobId, NoEditor, -1, -1, "sent", "none", FALSE)
  /\ UNCHANGED <<user, currentWeekStartStr, editors, dbJobs, dbEditors, nextId>>

\* deleteJob: optimistic removal, then the delete request
deleteJob(jobId) ==
  /\ jobs' = WithoutJob(jobs, jobId)
  /\ pending' = pending \cup
       {Req(ops, "deleteJob", "delete", jobId, NoEditor, NoEditor, -1, NoWeek, -1, -1)}
  /\ ops' = ops + 1
  /\ pre' = jobs
  /\ last' = Step("invoke", "deleteJob", jobId, NoEditor, -1, -1, "sent", "none", FALSE)
  /\ UNCHANGED <<user, currentWeekStartStr, editors, dbJobs, dbEditors, nextId>>

\* updateEditor: optimistic update of the capacity, then the update request
updateEditor(editorId, weeklyCapacity) ==
  /\ editors' = [i \in 1..Len(editors) |->
                   IF editors[i].id = editorId
                   THEN [editors[i] EXCEPT !.weeklyCapacity = weeklyCapacity]
                   ELSE editors[i]]
  /\ pending' = pending \cup
       {Req(ops, "updateEditor", "update", -1, NoEditor, editorId, -1, NoWeek, -1,
            weeklyCapacity)}
  /\ ops' = ops + 1
  /\ pre' = jobs
  /\ last' = Step("invoke", "updateEditor", -1, editorId, -1, -1, "sent", "none", FALSE)
  /\ UNCHANGED <<user, currentWeekStartStr, jobs, dbJobs, dbEditors, nextId>>

\* prev.filter(editor => editor.id !== editorId)
RECURSIVE WithoutEditor(_, _)
WithoutEditor(es, editorId) ==
  IF es = <<>> THEN <<>>
  ELSE IF Head(es).id = editorId THEN WithoutEditor(Tail(es), editorId)
       ELSE <<Head(es)>> \o WithoutEditor(Tail(es), editorId)

\* the removal taking the editor's jobs along
deleteEditor_cascade(editorId) ==
  /\ editors' = WithoutEditor(editors, editorId)
  /\ jobs' = SelectSeq(jobs, LAMBDA j : j.editorId # editorId)
  /\ pending' = pending \cup
       {Req(ops, "deleteEditor", "delete", -1, NoEditor, editorId, -1, NoWeek, -1, -1)}
  /\ ops' = ops + 1
  /\ pre' = jobs
  /\ last' = Step("invoke", "deleteEditor", -1, editorId, -1, -1, "sent", "none", FALSE)
  /\ UNCHANGED <<user, currentWeekStartStr, dbJobs, dbEditors, nextId>>

\* deleteEditor: optimistic removal, then the delete request
deleteEditor(editorId) ==
  /\ editors' = WithoutEditor(editors, editorId)
  /\ pending' = pending \cup
       {Req(ops, "deleteEditor", "delete", -1, NoEditor, editorId, -1, NoWeek, -1, -1)}
  /\ ops' = ops + 1
  /\ pre' = jobs
  /\ last' = Step("invoke", "deleteEditor", -1, editorId, -1, -1, "sent", "none", FALSE)
  /\ UNCHANGED <<user, currentWeekStartStr, jobs, dbJobs, dbEditors, nextId>>

\* reassignEditorJobs: every local job of fromEditorId goes to toEditorId,
\* then one bulk update filtered by the old editor
reassignEditorJobs(fromEditorId, toEditorId) ==
  /\ jobs' = [i \in 1..Len(jobs) |->
                IF jobs[i].editorId = fromEditorId
                THEN [jobs[i] EXCEPT !.editorId = toEditorId] ELSE jobs[i]]
  /\ pending' = pending \cup
       {Req(ops, "reassignEditorJobs", "update", -1, fromEditorId, toEditorId, -1,
            NoWeek, -1, -1)}
  /\ ops' = ops + 1
  /\ pre' = jobs
  /\ last' = Step("invoke", "reassignEditorJobs", -1, toEditorId, -1, -1, "sent",
                  "none", FALSE)
  /\ UNCHANGED <<user, currentWeekStartStr, editors, dbJobs, dbEditors, nextId>>

\* addEditor up to its first await, the lookup of the profile's plan_type.
\* The callback closes over editors, so the count the limit is checked
\* against is that of the render it was created in: the request carries it
\* in order, and the new editor's capacity in arg.
addEditor(weeklyCapacity) ==
  /\ pending' = pending \cup
       (IF user = NoUser THEN {}
        ELSE {Req(ops, "addEditor", "profile", -1, NoEditor, NoEditor, -1, NoWeek,
                  Len(editors), weeklyCapacity)})
  /\ ops' = ops + 1
  /\ pre' = jobs
  /\ last' = Step("invoke", "addEditor", -1, NoEditor, -1, Len(editors),
                  IF user = NoUser THEN "nouser" ELSE "sent", "none", FALSE)
  /\ UNCHANGED <<user, currentWeekStartStr, jobs, editors, dbJobs, dbEditors, nextId>>

\* goToPreviousWeek, goToNextWeek, goToWeek: another week is selected
goToWeek(w) ==
  /\ w # currentWeekStartStr
  /\ currentWeekStartStr' = w
  /\ ops' = ops + 1
  /\ pre' = jobs
  /\ last' = Step("invoke", "goToWeek", -1, NoEditor, -1, -1, "none", "none", FALSE)
  /\ UNCHANGED <<user, jobs, editors, dbJobs, dbEditors, pending, nextId>>

\* --------------------------------------- handlers, from the await onwards
\* What an awaited call gives back: a result without error, a result that
\* carries an error, or a rejection.
Outcomes == {"ok", "error", "reject"}

Settled(r, outcome, notice, reload) ==
  Step("settle", r.op, r.id, r.editorId, r.scheduledDate, r.order, outcome,
       notice, reload)

\* the catch block reloading as that of updateJob does
settleAddJob_reloads(r, outcome) ==
  LET newJob == Job(nextId, r.editorId, r.scheduledDate, r.weekStart, r.arg, r.order) IN
  /\ r.op = "addJob"
  /\ IF outcome = "ok"
     THEN /\ pending' = pending \ {r}
          /\ dbJobs' = dbJobs \cup {newJob}
          /\ nextId' = nextId + 1
          /\ jobs' = Append(jobs, newJob)
          /\ last' = Settled(r, outcome, "success", FALSE)
     ELSE /\ pending' = (pending \ {r}) \cup fetchDataRequests(r.n)
          /\ UNCHANGED <<dbJobs, nextId, jobs>>
          /\ last' = Settled(r, outcome, "error", TRUE)
  /\ pre' = jobs
  /\ UNCHANGED <<user, currentWeekStartStr, editors, dbEditors, ops>>

\* addJob after the insert: the returned row is appended, or the catch block
\* raises the failure notice
settleAddJob(r, outcome) ==
  LET newJob == Job(nextId, r.editorId, r.scheduledDate, r.weekStart, r.arg, r.order) IN
  /\ r.op = "addJob"
  /\ pending' = pending \ {r}
  /\ IF outcome = "ok"
     THEN /\ dbJobs' = dbJobs \cup {newJob}
          /\ nextId' = nextId + 1
          /\ jobs' = Append(jobs, newJob)
          /\ last' = Settled(r, outcome, "success", FALSE)
     ELSE /\ UNCHANGED <<dbJobs, nextId, jobs>>
          /\ last' = Settled(r, outcome, "error", FALSE)
  /\ pre' = jobs
  /\ UNCHANGED <<user, currentWeekStartStr, editors, dbEditors, ops>>

\* updateJob after the update: an error result is thrown, and the catch
\* block raises the notice and calls fetchData
settleUpdateJob(r, outcome) ==
  /\ r.op = "updateJob"
  /\ IF outcome = "ok"
     THEN /\ dbJobs' = {IF row.id = r.id THEN MergeJob(row, r) ELSE row : row \in dbJobs}
          /\ pending' = pending \ {r}
          /\ UNCHANGED <<jobs, editors>>
          /\ last' = Settled(r, outcome, "none", FALSE)
     ELSE /\ pending' = (pending \ {r}) \cup fetchDataRequests(r.n)
          /\ jobs' = fetchDataJobs(jobs)
          /\ editors' = fetchDataEditors(editors)
          /\ UNCHANGED dbJobs
          /\ last' = Settled(r, outcome, "error", TRUE)
  /\ pre' = jobs
  /\ UNCHANGED <<user, currentWeekStartStr, dbEditors, nextId, ops>>

\* deleteJob after the delete with the error of the result not looked at
settleDeleteJob_resultIgnored(r, outcome) ==
  /\ r.op = "deleteJob"
  /\ dbJobs' = IF outcome = "ok" THEN {row \in dbJobs : row.id # r.id} ELSE dbJobs
  /\ IF outcome = "reject"
     THEN /\ pending' = (pending \ {r}) \cup fetchDataRequests(r.n)
          /\ jobs' = fetchDataJobs(jobs)
          /\ editors' = fetchDataEditors(editors)
          /\ last' = Settled(r, outcome, "error", TRUE)
     ELSE /\ pending' = pending \ {r}
          /\ UNCHANGED <<jobs, editors>>
          /\ last' = Settled(r, outcome, "success", FALSE)
  /\ pre' = jobs
  /\ UNCHANGED <<user, currentWeekStartStr, dbEditors, nextId, ops>>

\* deleteJob after the delete
settleDeleteJob(r, outcome) ==
  /\ r.op = "deleteJob"
  /\ IF outcome = "ok"
     THEN /\ dbJobs' = {row \in dbJobs : row.id # r.id}
          /\ pending' = pending \ {r}
          /\ UNCHANGED <<jobs, editors>>
          /\ last' = Settled(r, outcome, "success", FALSE)
     ELSE /\ pending' = (pending \ {r}) \cup fetchDataRequests(r.n)
          /\ jobs' = fetchDataJobs(jobs)
          /\ editors' = fetchDataEditors(editors)
          /\ UNCHANGED dbJobs
          /\ last' = Settled(r, outcome, "error", TRUE)
  /\ pre' = jobs
  /\ UNCHANGED <<user, currentWeekStartStr, dbEditors, nextId, ops>>

\* The background block of moveJob after its update: the result is not
\* looked at, and the catch block only logs.
settleMoveJob(r, outcome) ==
  /\ r.op = "moveJob"
  /\ dbJobs' = IF outcome = "ok"
               THEN {IF row.id = r.id THEN MergeJob(row, r) ELSE row : row \in dbJobs}
               ELSE dbJobs
  /\ pending' = pending \ {r}
  /\ pre' = jobs
  /\ last' = Settled(r, outcome, "none", FALSE)
  /\ UNCHANGED <<user, currentWeekStartStr, jobs, editors, dbEditors, nextId, ops>>

\* updateEditor after the update: weekly_capacity is sent when truthy; the
\* result is not looked at, a rejection calls fetchData
settleUpdateEditor(r, outcome) ==
  /\ r.op = "updateEditor"
  /\ dbEditors' = IF outcome = "ok" /\ r.arg # 0
                  THEN [i \in 1..Len(dbEditors) |->
                          IF dbEditors[i].id = r.editorId
                          THEN [dbEditors[i] EXCEPT !.weeklyCapacity = r.arg]
                          ELSE dbEditors[i]]
                  ELSE dbEditors
  /\ IF outcome = "reject"
     THEN /\ pending' = (pending \ {r}) \cup fetchDataRequests(r.n)
          /\ jobs' = fetchDataJobs(jobs)
          /\ editors' = fetchDataEditors(editors)
     ELSE /\ pending' = pending \ {r}
          /\ UNCHANGED <<jobs, editors>>
  /\ pre' = jobs
  /\ last' = Settled(r, outcome, "none", outcome = "reject")
  /\ UNCHANGED <<user, currentWeekStartStr, dbJobs, nextId, ops>>

\* deleteEditor after the delete: 'Editor deleted' follows any result, a
\* rejection calls fetchData
settleDeleteEditor(r, outcome) ==
  /\ r.op = "deleteEditor"
  /\ dbEditors' = IF outcome = "ok" THEN WithoutEditor(dbEditors, r.editorId)
                  ELSE dbEditors
  /\ IF outcome = "reject"
     THEN /\ pending' = (pending \ {r}) \cup fetchDataRequests(r.n)
          /\ jobs' = fetchDataJobs(jobs)
          /\ editors' = fetchDataEditors(editors)
     ELSE /\ pending' = pending \ {r}
          /\ UNCHANGED <<jobs, editors>>
  /\ pre' = jobs
  /\ last' = Settled(r, outcome, IF outcome = "reject" THEN "none" ELSE "success",
                     outcome = "reject")
  /\ UNCHANGED <<user, currentWeekStartStr, dbJobs, nextId, ops>>

\* reassignEditorJobs after the bulk update
settleReassignEditorJobs(r, outcome) ==
  /\ r.op = "reassignEditorJobs"
  /\ dbJobs' = IF outcome = "ok"
               THEN {IF row.editorId = r.from THEN [row EXCEPT !.editorId = r.editorId]
                     ELSE row : row \in dbJobs}
               ELSE dbJobs
  /\ IF outcome = "reject"
     THEN /\ pending' = (pending \ {r}) \cup fetchDataRequests(r.n)
          /\ jobs' = fetchDataJobs(jobs)
          /\ editors' = fetchDataEditors(editors)
     ELSE /\ pending' = pending \ {r}
          /\ UNCHANGED <<jobs, editors>>
  /\ pre' = jobs
  /\ last' = Settled(r, outcome, "none", outcome = "reject")
  /\ UNCHANGED <<user, currentWeekStartStr, dbEditors, nextId, ops>>

\* planType === 'pro' ? 10 : 2
ProLimit == 10
FreeLimit == 2

PlanTypes == {"free", "pro"}

PlanLimit(planType) == IF planType = "pro" THEN ProLimit ELSE FreeLimit

\* the check letting through an editor count equal to the limit
OverLimit_above(count, planType) == count > PlanLimit(planType)

\* editors.length >= limit
OverLimit(count, planType) == count >= PlanLimit(planType)

\* The identifier the backend gives an inserted editor.
NewEditorId(n) == "e" \o ToString(n)

\* addEditor after the profile lookup and after the insert.  The lookup
\* yields the plan_type of the profile, and "free" stays when it returns no
\* profile or rejects; at or above the limit PLAN_LIMIT_REACHED is thrown
\* and rethrown without a toast, below it the insert is awaited.  A failed
\* insert raises the error toast and rethrows; nothing reloads.  The step
\* records the stage as its op, as the outcome of a successful lookup the
\* plan it found, and a thrown PLAN_LIMIT_REACHED as its notice.
settleAddEditor(r, outcome) ==
  /\ r.op = "addEditor"
  /\ pre' = jobs
  /\ UNCHANGED <<user, currentWeekStartStr, jobs, dbJobs, ops>>
  /\ IF r.stage = "profile"
     THEN \E plan \in PlanTypes :
            LET planType == IF outcome = "ok" THEN plan ELSE "free"
                found == IF outcome = "ok" THEN plan ELSE outcome
            IN
            /\ outcome # "ok" => plan = "free"
            /\ UNCHANGED <<editors, dbEditors, nextId>>
            /\ IF OverLimit(r.order, planType)
               THEN /\ pending' = pending \ {r}
                    /\ last' = [Settled(r, found, "PLAN_LIMIT_REACHED", FALSE)
                                  EXCEPT !.op = r.stage]
               ELSE /\ pending' = (pending \ {r}) \cup {[r EXCEPT !.stage = "insert"]}
                    /\ last' = [Settled(r, found, "none", FALSE)
                                  EXCEPT !.op = r.stage]
     ELSE /\ pending' = pending \ {r}
          /\ IF outcome = "ok"
             THEN LET newEditor == Editor(NewEditorId(nextId), r.arg) IN
                  /\ dbEditors' = Append(dbEditors, newEditor)
                  /\ editors' = Append(editors, newEditor)
                  /\ nextId' = nextId + 1
                  /\ last' = [Settled(r, outcome, "success", FALSE)
                                EXCEPT !.op = r.stage]
             ELSE /\ UNCHANGED <<editors, dbEditors, nextId>>
                  /\ last' = [Settled(r, outcome, "error", FALSE)
                                EXCEPT !.op = r.stage]

\* fetchData after each of its three awaits: the editors, the jobs of the
\* selected week (a result nothing reads), all jobs.  An error of the first
\* or the third select, or any rejection, ends in 'Failed to load planner
\* data' with the collections set so far.  Past the first await the request
\* carries editorsData, the rows the select of the editors returned, and
\* editorsWere, the local editors setEditors replaced by them.
settleFetchData(r, outcome) ==
  LET failed == outcome = "reject" \/ (outcome = "error" /\ r.stage # "jobsWeek")
      next == IF r.stage = "editors"
              THEN [r EXCEPT !.stage = "jobsWeek"]
                     @@ [editorsData |-> dbEditors, editorsWere |-> editors]
              ELSE [r EXCEPT !.stage = "jobsAll"]
  IN
  /\ r.op = "fetchData"
  /\ pending' = IF failed \/ r.stage = "jobsAll" THEN pending \ {r}
                ELSE (pending \ {r}) \cup {next}
  /\ editors' = IF ~failed /\ r.stage = "editors" THEN dbEditors ELSE editors
  /\ jobs' = IF ~failed /\ r.stage = "jobsAll" THEN RowsById(dbJobs) ELSE jobs
  /\ pre' = jobs
  /\ last' = [Settled(r, outcome, IF failed THEN "error" ELSE "none", FALSE)
                EXCEPT !.op = r.stage]
  /\ UNCHANGED <<user, currentWeekStartStr, dbJobs, dbEditors, nextId, ops>>

\* ---------------------------------------------------- getEditorCapacity
\* The arithmetic of getEditorCapacity is that of JavaScript numbers, IEEE
\* 754 doubles: a positive double is its significand, SignificandBits bits
\* with the most significant first, and the exponent exp of its leading bit,
\* so that it stands for 1.xxx * 2^exp; zero has no bits.  Every step below
\* works on single bits and small remainders, and splits a run of bits in
\* two halves so that no step nests deeper than the logarithm of its length.
SignificandBits == 53

Zero == [sig |-> <<>>, exp |-> 0]

\* n further bits of rem / d for rem < d, by long division, and the
\* remainder they leave
RECURSIVE QuotientBits(_, _, _)
QuotientBits(rem, d, n) ==
  IF n = 0 THEN [bits |-> <<>>, rem |-> rem]
  ELSE IF n = 1
       THEN LET bit == IF 2 * rem >= d THEN 1 ELSE 0
            IN [bits |-> <<bit>>, rem |-> 2 * rem - bit * d]
       ELSE LET high == QuotientBits(rem, d, n \div 2)
                low == QuotientBits(high.rem, d, n - n \div 2)
            IN [bits |-> high.bits \o low.bits, rem |-> low.rem]

\* the binary digits of n, none for 0
RECURSIVE BitsOf(_)
BitsOf(n) == IF n = 0 THEN <<>> ELSE BitsOf(n \div 2) \o <<n % 2>>

\* the digits of bits * k + carry in the places of bits, and the carry out
\* of the leading place: the lower half first, and an upper half that is
\* neither scaled nor carried into stays as it is
RECURSIVE TimesBits(_, _, _)
TimesBits(bits, k, carry) ==
  LET n == Len(bits) IN
  IF n = 0 THEN [bits |-> <<>>, carry |-> carry]
  ELSE IF n = 1
       THEN LET t == bits[1] * k + carry
            IN [bits |-> <<t % 2>>, carry |-> t \div 2]
       ELSE LET low == TimesBits(SubSeq(bits, n \div 2 + 1, n), k, carry)
                high == TimesBits(SubSeq(bits, 1, n \div 2), k, low.carry)
            IN IF low.carry = 0 /\ k = 1
               THEN [bits |-> SubSeq(bits, 1, n \div 2) \o low.bits, carry |-> 0]
               ELSE [bits |-> high.bits \o low.bits, carry |-> high.carry]

\* the bits plus one in the last place; one bit longer when all were set
Increment(bits) ==
  LET digits == TimesBits(bits, 1, 1) IN BitsOf(digits.carry) \o digits.bits

\* Round to nearest, ties to even: kept are the SignificandBits leading bits
\* of the exact result, half and rest tell whether what was cut off reaches
\* one half of the last place and whether it exceeds it.
Rounded(kept, exp, half, rest) ==
  IF half /\ (rest \/ kept[SignificandBits] = 1)
  THEN LET up == Increment(kept) IN
       IF Len(up) > SignificandBits
       THEN [sig |-> SubSeq(up, 1, SignificandBits), exp |-> exp + 1]
       ELSE [sig |-> up, exp |-> exp]
  ELSE [sig |-> kept, exp |-> exp]

\* the smallest k with h * 2^k >= c
RECURSIVE ShiftUp(_, _)
ShiftUp(h, c) == IF h >= c THEN 0 ELSE 1 + ShiftUp(2 * h, c)

\* the largest k with c * 2^k <= h, for h >= c
RECURSIVE ShiftDown(_, _)
ShiftDown(h, c) == IF 2 * c <= h THEN 1 + ShiftDown(h, 2 * c) ELSE 0

\* 2^k
RECURSIVE Pow2(_)
Pow2(k) == IF k = 0 THEN 1 ELSE 2 * Pow2(k - 1)

\* h / c for integers h >= 0 and c > 0: the double nearest to the quotient
Divide(h, c) ==
  IF h = 0 THEN Zero
  ELSE LET up == ShiftUp(h, c)
           down == IF h >= c THEN ShiftDown(h, c) ELSE 0
           num == h * Pow2(up)
           den == c * Pow2(down)
           q == QuotientBits(num - den, den, SignificandBits - 1)
       IN Rounded(<<1>> \o q.bits, down - up, 2 * q.rem >= den, 2 * q.rem > den)

\* x * k for a double x and a small positive integer k: the double nearest
\* to the product
Times(x, k) ==
  IF x.sig = <<>> THEN Zero
  ELSE LET digits == TimesBits(x.sig, k, 0)
           product == BitsOf(digits.carry) \o digits.bits
           cut == SubSeq(product, SignificandBits + 1, Len(product))
       IN Rounded(SubSeq(product, 1, SignificandBits),
                  x.exp + (Len(product) - SignificandBits),
                  cut # <<>> /\ cut[1] = 1,
                  \E i \in 2..Len(cut) : cut[i] = 1)

\* the integer the bits stand for
RECURSIVE IntOf(_)
IntOf(bits) ==
  IF bits = <<>> THEN 0
  ELSE 2 * IntOf(SubSeq(bits, 1, Len(bits) - 1)) + bits[Len(bits)]

\* Math.round(x) for a double x >= 0 below 2^SignificandBits: the nearest
\* integer, a half going up
MathRound(x) ==
  IF x.sig = <<>> \/ x.exp < -1 THEN 0
  ELSE IF x.exp = -1 THEN 1
       ELSE IntOf(SubSeq(x.sig, 1, x.exp + 1))
              + (IF x.exp + 2 <= SignificandBits THEN x.sig[x.exp + 2] ELSE 0)

\* Math.min
MathMin(a, b) == IF a <= b THEN a ELSE b

\* editorJobs.reduce((sum, job) => sum + job.estimatedHours, 0)
RECURSIVE TotalHours(_)
TotalHours(js) ==
  IF js = <<>> THEN 0 ELSE Head(js).estimatedHours + TotalHours(Tail(js))

\* editor?.weeklyCapacity || 40
DefaultCapacity == 40

\* getEditorCapacity
getEditorCapacity(editorId) ==
  LET editorJobs == SelectSeq(jobs, LAMBDA job :
                      job.editorId = editorId /\ job.weekStart = currentWeekStartStr)
      totalHours == TotalHours(editorJobs)
      found == {i \in 1..Len(editors) : editors[i].id = editorId}
      editor == editors[CHOOSE i \in found : \A k \in found : i <= k]
      weeklyCapacity == IF found # {} /\ editor.weeklyCapacity # 0
                        THEN editor.weeklyCapacity ELSE DefaultCapacity
  IN MathMin(100, MathRound(Times(Divide(totalHours, weeklyCapacity), 100)))

\* ------------------------------------------------- the ordering engine alone
HoursOf(id) == 5 * id

\* The collections of n jobs with every cell contiguous, job i carrying
\* identifier i: job n takes any place 0..k of a cell that held k jobs, and
\* the jobs at or after that place move up by one.
RECURSIVE CollectionsOf(_)
CollectionsOf(n) ==
  IF n = 0 THEN {<<>>}
  ELSE UNION {
         {Append([i \in 1..(n - 1) |->
                    IF CellOf(js[i]) = c /\ js[i].order >= o
                    THEN [js[i] EXCEPT !.order = @ + 1] ELSE js[i]],
                 Job(n, c[1], c[2], c[3], HoursOf(n), o)) :
            o \in 0..Cardinality(CellIdx(js, c))} :
         js \in CollectionsOf(n - 1), c \in AllCells}

\* The collections of n jobs of one week with any cells and orders, as
\* updateJob, deleteJob and reassignEditorJobs leave them: gaps and
\* duplicates included.
AnyCollectionsOf(n) ==
  {js \in [1..n -> [id : 1..n, editorId : EditorIds, scheduledDate : Days,
                    weekStart : {"w1"}, estimatedHours : {HoursOf(k) : k \in 1..n},
                    order : Orders]] :
     \A i \in 1..n : js[i].id = i /\ js[i].estimatedHours = HoursOf(i)}

\* Inputs of the ordering engine: every contiguous collection of up to
\* MaxLen jobs and every collection whatsoever of fewer jobs of one week.
InitCollections ==
  UNION {CollectionsOf(n) : n \in 0..MaxLen}
    \cup UNION {AnyCollectionsOf(n) : n \in 0..(MaxLen - 1)}

\* The loaded board: the local collections and the tables agree, nothing is
\* in flight.
Loaded(js) ==
  /\ user = "u1"
  /\ currentWeekStartStr = "w1"
  /\ jobs = js
  /\ editors = <<Editor("e1", 40), Editor("e2", 40)>>
  /\ dbJobs = {js[i] : i \in 1..Len(js)}
  /\ dbEditors = editors
  /\ pending = {}
  /\ nextId = MaxLen + 1
  /\ ops = 0
  /\ pre = jobs
  /\ last = NoStep

InitMove == \E js \in InitCollections : Loaded(js)

\* one move of any job, known or not, to any cell and place
planMoveOnce ==
  \E jobId \in 1..MaxLen, e \in EditorIds, d \in Days, o \in Orders :
    /\ ops = 0
    /\ moveJob(jobId, e, d, o)

NextMove == planMoveOnce

SpecMove == InitMove /\ [][NextMove]_vars

\* ------------------------------------------- sequences of drag-and-drop moves
\* The index DroppableCell gives job js[i] in the listing of cell c:
\* jobs.sort((a, b) => a.order - b.order), a stable sort, then map by index.
ListIndex(js, c, i) ==
  Cardinality({k \in CellIdx(js, c) :
                 \/ js[k].order < js[i].order
                 \/ js[k].order = js[i].order /\ k < i})

\* MaxLen jobs of one week: all but the last fill a cell of editor e1 in
\* order, the last is alone in a cell of editor e2.
StartJobs ==
  [i \in 1..MaxLen |->
     IF i < MaxLen THEN Job(i, "e1", 0, "w1", HoursOf(i), i - 1)
     ELSE Job(i, "e2", 0, "w1", HoursOf(i), 0)]

InitMoves == Loaded(StartJobs)

\* A drop: moveJob with the index of a place in the destination cell's
\* listing, 0..k for a cell that lists k jobs besides the moved one.
moveJobToIndex ==
  \E i \in 1..Len(jobs), e \in EditorIds, d \in Days :
    \E o \in 0..Cardinality(CellIdx(jobs, <<e, d, jobs[i].weekStart>>) \ {i}) :
      /\ ops < MaxMoves
      /\ moveJob(jobs[i].id, e, d, o)

NextMoves == moveJobToIndex

SpecMoves == InitMoves /\ [][NextMoves]_vars

\* ------------------------------------------------------ the sync controller
\* The hook after construction and its mount effect: the tables hold the
\* start collection and both editors; a signed-in user has nothing local yet
\* and the first fetchData in flight, without a user fetchData has returned.
Init ==
  /\ user \in {"u1", NoUser}
  /\ currentWeekStartStr = "w1"
  /\ jobs = <<>>
  /\ editors = <<>>
  /\ dbJobs = {StartJobs[i] : i \in 1..MaxLen}
  /\ dbEditors = <<Editor("e1", 40), Editor("e2", 40)>>
  /\ pending = fetchDataRequests(-1)
  /\ nextId = MaxLen + 1
  /\ ops = 0
  /\ pre = jobs
  /\ last = NoStep

\* A handler may be invoked while the run has invocations and awaits left.
CanInvoke == ops < MaxOps /\ Cardinality(pending) < MaxPending

\* The identifiers the board passes to a handler are those of the jobs and
\* editors it shows.
LocalJobIds == {jobs[i].id : i \in 1..Len(jobs)}

LocalEditorIds == {editors[i].id : i \in 1..Len(editors)}

\* The board of the sync controller shows one day; what an edit of a job
\* changes is its editor.
BoardDays == {0}

BoardUpdates == {u \in JobUpdates : u.editorId # NoEditor}

\* A drop hands moveJob a place of the destination cell's listing.
DropPlaces(id, e, d) ==
  LET i == FindIndex(jobs, id)
  IN 0..Cardinality(CellIdx(jobs, <<e, d, jobs[i].weekStart>>) \ {i})

\* A handler is invoked.
Invoke ==
  \/ \E e \in LocalEditorIds, d \in BoardDays : CanInvoke /\ addJob(e, d, 10)
  \/ \E id \in LocalJobIds, u \in BoardUpdates : CanInvoke /\ updateJob(id, u)
  \/ \E id \in LocalJobIds : CanInvoke /\ deleteJob(id)
  \/ \E id \in LocalJobIds, e \in EditorIds, d \in BoardDays :
       \E o \in DropPlaces(id, e, d) : CanInvoke /\ moveJob(id, e, d, o)
  \/ \E e \in LocalEditorIds, c \in Capacities : CanInvoke /\ updateEditor(e, c)
  \/ \E e \in LocalEditorIds : CanInvoke /\ deleteEditor(e)
  \/ \E from \in LocalEditorIds \cup {jobs[i].editorId : i \in 1..Len(jobs)},
        to \in LocalEditorIds :
       CanInvoke /\ from # to /\ reassignEditorJobs(from, to)
  \/ \E c \in Capacities \ {0} : CanInvoke /\ addEditor(c)
  \/ \E w \in Weeks : CanInvoke /\ goToWeek(w)

\* An awaited call returns with one of the given outcomes.
Settle(outcomes) ==
  \E r \in pending, outcome \in outcomes :
    \/ settleAddJob(r, outcome)
    \/ settleUpdateJob(r, outcome)
    \/ settleDeleteJob(r, outcome)
    \/ settleMoveJob(r, outcome)
    \/ settleUpdateEditor(r, outcome)
    \/ settleDeleteEditor(r, outcome)
    \/ settleReassignEditorJobs(r, outcome)
    \/ settleAddEditor(r, outcome)
    \/ settleFetchData(r, outcome)

Next == Invoke \/ Settle(Outcomes)

Spec == Init /\ [][Next]_vars

\* The runs in which every awaited call succeeds.
NextOk == Invoke \/ Settle({"ok"})

SpecOk == Init /\ [][NextOk]_vars

\* ----------------------------------------------- the optimistic handlers
\* A loaded board of two jobs, both in the first cell of editor e1.
Board == SubSeq(StartJobs, 1, 2)

InitBoard == Loaded(Board)

\* One of the six handlers that change local state before they persist is
\* invoked.
InvokeOptimistic ==
  \/ \E id \in LocalJobIds, u \in BoardUpdates : CanInvoke /\ updateJob(id, u)
  \/ \E id \in LocalJobIds : CanInvoke /\ deleteJob(id)
  \/ \E id \in LocalJobIds, e \in EditorIds, d \in BoardDays :
       \E o \in DropPlaces(id, e, d) : CanInvoke /\ moveJob(id, e, d, o)
  \/ \E e \in LocalEditorIds, c \in Capacities : CanInvoke /\ updateEditor(e, c)
  \/ \E e \in LocalEditorIds : CanInvoke /\ deleteEditor(e)
  \/ \E from \in LocalEditorIds \cup {jobs[i].editorId : i \in 1..Len(jobs)},
        to \in LocalEditorIds :
       CanInvoke /\ from # to /\ reassignEditorJobs(from, to)

NextOptimistic == InvokeOptimistic \/ Settle(Outcomes)

SpecOptimistic == InitBoard /\ [][NextOptimistic]_vars

\* ------------------------------------------------------------ adding jobs
\* The loaded board, or the hook of a visitor who is not signed in.
InitAdd ==
  \/ Loaded(Board)
  \/ /\ user = NoUser
     /\ currentWeekStartStr = "w1"
     /\ jobs = <<>>
     /\ editors = <<>>
     /\ dbJobs = {Board[i] : i \in 1..Len(Board)}
     /\ dbEditors = <<Editor("e1", 40), Editor("e2", 40)>>
     /\ pending = {}
     /\ nextId = MaxLen + 1
     /\ ops = 0
     /\ pre = jobs
     /\ last = NoStep

\* A job is added for any editor and day; another week may be selected in
\* between.
InvokeAdd ==
  \/ \E e \in EditorIds, d \in Days : CanInvoke /\ addJob(e, d, 10)
  \/ \E w \in Weeks : CanInvoke /\ goToWeek(w)

NextAdd == InvokeAdd \/ Settle(Outcomes)

SpecAdd == InitAdd /\ [][NextAdd]_vars

\* ------------------------------------------------------- addEditor alone
\* An account of n editors, loaded, with no jobs.
EditorsOf(n) == [i \in 1..n |-> Editor(NewEditorId(i), 40)]

InitEditors ==
  \E n \in 0..MaxEditors :
    /\ user \in {"u1", NoUser}
    /\ currentWeekStartStr = "w1"
    /\ jobs = <<>>
    /\ editors = EditorsOf(n)
    /\ dbJobs = {}
    /\ dbEditors = editors
    /\ pending = {}
    /\ nextId = MaxEditors + 1
    /\ ops = 0
    /\ pre = jobs
    /\ last = NoStep

\* one addEditor
addEditorOnce == \E c \in Capacities : ops = 0 /\ addEditor(c)

\* its awaited calls return
addEditorSettles ==
  \E r \in pending, outcome \in Outcomes : settleAddEditor(r, outcome)

NextEditors == addEditorOnce \/ addEditorSettles

SpecEditors == InitEditors /\ [][NextEditors]_vars

\* ------------------------------------------ addEditor, several in flight
\* The profiles table holds one row per user, which no handler of the data
\* layer writes: the account of u1 is on the free plan, that of u2 on pro.
ProfilePlan(u) == IF u = "u2" THEN "pro" ELSE "free"

\* An account holding at most as many editors as its plan allows.
InitTier ==
  \E u \in {"u1", "u2"} :
    \E n \in 0..PlanLimit(ProfilePlan(u)) :
      /\ user = u
      /\ currentWeekStartStr = "w1"
      /\ jobs = <<>>
      /\ editors = EditorsOf(n)
      /\ dbJobs = {}
      /\ dbEditors = editors
      /\ pending = {}
      /\ nextId = MaxEditors + 1
      /\ ops = 0
      /\ pre = jobs
      /\ last = NoStep

\* addEditor, also while earlier ones are awaiting their lookup or insert
addEditorAgain == \E c \in Capacities \ {0} : CanInvoke /\ addEditor(c)

\* an awaited call of an addEditor returns; a lookup that succeeds finds the
\* plan of the user's profile
addEditorSettlesInTier ==
  \E r \in pending, outcome \in Outcomes :
    /\ settleAddEditor(r, outcome)
    /\ (r.stage = "profile" /\ outcome = "ok") => last'.outcome = ProfilePlan(user)

NextTier == addEditorAgain \/ addEditorSettlesInTier

SpecTier == InitTier /\ [][NextTier]_vars

\* ------------------------------------------- moves on cells with gaps
\* The collections of n jobs of editor e1 in one week in which the jobs of a
\* cell have distinct orders, any orders: gaps included.
RECURSIVE DistinctCollectionsOf(_)
DistinctCollectionsOf(n) ==
  IF n = 0 THEN {<<>>}
  ELSE UNION {
         {Append(js, Job(n, "e1", d, "w1", HoursOf(n), o)) :
            o \in Orders \ CellOrders(js, <<"e1", d, "w1">>)} :
         js \in DistinctCollectionsOf(n - 1), d \in Days}

\* Every such collection is a start, so that what one moveJob keeps, any
\* sequence of them keeps.
InitDistinct == \E js \in DistinctCollectionsOf(MaxLen) : Loaded(js)

\* the update the move sent in the background returns; nothing reads it
moveJobSettles ==
  \E r \in pending, outcome \in Outcomes : settleMoveJob(r, outcome)

NextDistinct == planMoveOnce \/ moveJobSettles

SpecDistinct == InitDistinct /\ [][NextDistinct]_vars

\* ------------------------------------------------------------- checkout
\* PricingSection (src/src/components/DroppableCell.tsx): handlePlanClick and
\* startCheckout.  user is useAuth().user; the request startCheckout awaits
\* is kept in pending with the plan it was sent for and, once fetch has
\* returned, the response; a step records in last the toast it raised
\* (notice and message), the route it navigated to and the address it set
\* window.location.href to.

\* user?.email: the account u3 has none
HasEmail(u) == u \in {"u1", "u2"}

\* plans.map(plan => plan.name)
PlanNames == {"Starter", "Pro", "Agency"}

\* planName.toLowerCase()
ToLowerCase(planName) ==
  CASE planName = "Starter" -> "starter"
    [] planName = "Pro" -> "pro"
    [] planName = "Agency" -> "agency"
    [] OTHER -> planName

\* res.headers.get("content-type"): the media type and its parameters, none
\* when the header is absent
ContentTypes ==
  {<<>>, <<"text/html", "charset=utf-8">>,
   <<"application/json">>, <<"application/json", "charset=utf-8">>}

\* !contentType || !contentType.includes("application/json"), negated
IsJson(contentType) ==
  contentType # <<>> /\ \E i \in 1..Len(contentType) : contentType[i] = "application/json"

Statuses == {200, 201, 404}

\* res.ok
ResOk(status) == status \in 200..299

\* what res.json() gives: an object whose error and checkoutUrl are strings,
\* empty when the body does not carry them
Bodies == [error : {"", "no such plan"}, checkoutUrl : {"", "https://pay/1"}]

Responses == [contentType : ContentTypes, status : Statuses, data : Bodies]

NoResponse == [contentType |-> <<>>, status |-> 0, data |-> [error |-> "", checkoutUrl |-> ""]]

\* a step of the pricing section
CheckoutStep(phase, op, plan, outcome, notice, message, navigate, href, response) ==
  Step(phase, op, -1, NoEditor, -1, -1, outcome, notice, FALSE)
    @@ [plan |-> plan, message |-> message, navigate |-> navigate, href |-> href,
        response |-> response]

CheckoutReq(n, stage, plan, response) ==
  Req(n, "startCheckout", stage, -1, NoEditor, NoEditor, -1, NoWeek, -1, -1)
    @@ [plan |-> plan, response |-> response]

\* startCheckout up to its first await, as the last call of the click
\* handler op: without an email the toast and no request, else the POST
startCheckout(op, plan) ==
  IF ~HasEmail(user)
  THEN /\ pending' = pending
       /\ last' = CheckoutStep("invoke", op, plan, "noemail", "error",
                                "Please ensure you are logged in correctly.",
                                "", "", NoResponse)
  ELSE /\ pending' = pending \cup {CheckoutReq(ops, "fetch", plan, NoResponse)}
       /\ last' = CheckoutStep("invoke", op, plan, "sent", "none", "", "", "",
                                NoResponse)

\* handlePlanClick
handlePlanClick(planName) ==
  LET plan == ToLowerCase(planName) IN
  /\ ops' = ops + 1
  /\ pre' = jobs
  /\ UNCHANGED <<user, currentWeekStartStr, jobs, editors, dbJobs, dbEditors, nextId>>
  /\ IF plan = "starter"
     THEN /\ pending' = pending
          /\ last' = CheckoutStep("invoke", "handlePlanClick", plan, "navigate", "none",
                                   "", IF user # NoUser THEN "/planner" ELSE "/auth",
                                   "", NoResponse)
     ELSE IF user = NoUser
          THEN /\ pending' = pending
               /\ last' = CheckoutStep("invoke", "handlePlanClick", plan, "navigate",
                                        "none", "", "/auth", "", NoResponse)
          ELSE IF plan \in {"pro", "agency"}
               THEN startCheckout("handlePlanClick", plan)
               ELSE /\ pending' = pending
                    /\ last' = CheckoutStep("invoke", "handlePlanClick", plan, "none",
                                             "none", "", "", "", NoResponse)

\* the catch block of startCheckout
CheckoutError(r, stage, outcome, message) ==
  /\ pending' = pending \ {r}
  /\ last' = CheckoutStep("settle", stage, r.plan, outcome, "Checkout Error",
                           message, "", "", r.response)

\* startCheckout from the return of fetch onwards, one step for each await:
\* fetch, then res.text() of a response that is not JSON or res.json() of
\* one that is.  Any of the three may reject, which the catch block turns
\* into the Checkout Error toast.
settleStartCheckout(r, outcome, response) ==
  /\ r.op = "startCheckout"
  /\ pre' = jobs
  /\ UNCHANGED <<user, currentWeekStartStr, jobs, editors, dbJobs, dbEditors, nextId, ops>>
  /\ CASE r.stage = "fetch" ->
            IF outcome = "reject"
            THEN CheckoutError(r, "fetch", outcome, "Failed to fetch")
            ELSE /\ pending' = (pending \ {r}) \cup
                      {CheckoutReq(r.n, IF IsJson(response.contentType)
                                        THEN "json" ELSE "text", r.plan, response)}
                 /\ last' = CheckoutStep("settle", "fetch", r.plan, outcome, "none",
                                          "", "", "", response)
       [] r.stage = "text" ->
            /\ response = r.response
            /\ IF outcome = "reject"
               THEN CheckoutError(r, "text", outcome, "body stream error")
               ELSE /\ pending' = pending \ {r}
                    /\ last' = CheckoutStep("settle", "text", r.plan, outcome,
                                             "Error 404",
                                             "The API endpoint was not found. Please ensure you are using the correct deployment URL.",
                                             "", "", r.response)
       [] r.stage = "json" ->
            /\ response = r.response
            /\ IF outcome = "reject"
               THEN CheckoutError(r, "json", outcome, "Unexpected token")
               ELSE IF ~ResOk(r.response.status)
                    THEN CheckoutError(r, "json", outcome,
                                       IF r.response.data.error # ""
                                       THEN r.response.data.error
                                       ELSE "Checkout failed")
                    ELSE /\ pending' = pending \ {r}
                         /\ last' = CheckoutStep("settle", "json", r.plan, outcome,
                                                  "none", "", "",
                                                  r.response.data.checkoutUrl,
                                                  r.response)

\* The pricing section as rendered: nobody is signed in, or a user with or
\* without an email address.
InitCheckout ==
  /\ user \in {"u1", "u3", NoUser}
  /\ currentWeekStartStr = "w1"
  /\ jobs = <<>>
  /\ editors = <<>>
  /\ dbJobs = {}
  /\ dbEditors = <<>>
  /\ pending = {}
  /\ nextId = 1
  /\ ops = 0
  /\ pre = jobs
  /\ last = NoStep

\* a plan's button is clicked
planClicked == \E planName \in PlanNames : CanInvoke /\ handlePlanClick(planName)

\* an awaited call of startCheckout returns or rejects
checkoutSettles ==
  \E r \in pending, outcome \in {"ok", "reject"} :
    \E response \in IF r.stage = "fetch" THEN Responses ELSE {r.response} :
      settleStartCheckout(r, outcome, response)

NextCheckout == planClicked \/ checkoutSettles

SpecCheckout == InitCheckout /\ [][NextCheckout]_vars

\* ---------------------------------------------------- what a move is about
\* The last step was a moveJob of a job the collection held.
IsMove ==
  /\ last.phase = "invoke"
  /\ last.op = "moveJob"
  /\ \E i \in 1..Len(pre) : pre[i].id = last.id

\* The moved job as it was, and where it stands in the array.
MovedIdx == CHOOSE i \in 1..Len(pre) : pre[i].id = last.id
OldJob == pre[MovedIdx]

\* The cell the move targets: the destination editor and day, the job's week.
DestCell == <<last.editorId, last.scheduledDate, OldJob.weekStart>>

IsIntraCell ==
  IsMove /\ last.editorId = OldJob.editorId /\ last.scheduledDate = OldJob.scheduledDate

IsCrossCell ==
  IsMove /\ ~(last.editorId = OldJob.editorId /\ last.scheduledDate = OldJob.scheduledDate)

\* The jobs of the destination cell before the move, the moved job left out.
DestOthers == CellIdx(pre, DestCell) \ {MovedIdx}

\* C2: an intra-cell move of a cell with orders 0..n-1 to a place in 0..n-1
\* leaves the cell with n jobs whose orders are exactly 0..n-1, one job each.
C2_IntraCellPermutation ==
  LET n == Cardinality(CellIdx(pre, DestCell)) IN
  (IsIntraCell /\ Contiguous(pre, DestCell) /\ last.order \in 0..(n - 1))
    => /\ Cardinality(CellIdx(jobs, DestCell)) = n
       /\ CellOrders(jobs, DestCell) = 0..(n - 1)
       /\ \A i, k \in CellIdx(jobs, DestCell) :
            i # k => jobs[i].order # jobs[k].order

\* a job of a three-job cell moved from its first to its last place
C2_Witness ==
  /\ IsIntraCell
  /\ Contiguous(pre, DestCell)
  /\ Cardinality(CellIdx(pre, DestCell)) = 3
  /\ OldJob.order = 0
  /\ last.order = 2

\* C3: a cross-cell move into a cell with orders 0..m-1 at a place in 0..m
\* leaves that cell with orders exactly 0..m; and whatever the requested
\* place, the moved job's order is the requested one.
C3_CrossCellMakesRoom ==
  LET m == Cardinality(CellIdx(pre, DestCell)) IN
  /\ (IsCrossCell /\ Contiguous(pre, DestCell) /\ last.order \in 0..m)
       => /\ CellOrders(jobs, DestCell) = 0..m
          /\ Cardinality(CellIdx(jobs, DestCell)) = m + 1
  /\ IsCrossCell => jobs[MovedIdx].order = last.order

\* a job moved into a two-job cell between the two
C3_Witness ==
  /\ IsCrossCell
  /\ Contiguous(pre, DestCell)
  /\ Cardinality(CellIdx(pre, DestCell)) = 2
  /\ last.order = 1
  /\ CellOrders(jobs, DestCell) = {0, 1, 2}

\* C5: a move of a job to its own editor, day and order changes no job.
C5_NullMoveIdentity ==
  (IsIntraCell /\ last.order = OldJob.order) => jobs = pre

\* a null move of the first job of a cell that holds others
C5_Witness ==
  /\ IsIntraCell
  /\ last.order = OldJob.order
  /\ OldJob.order = 0
  /\ Cardinality(CellIdx(pre, DestCell)) >= 2

\* C6: in an intra-cell move from oldOrder to destOrder the other jobs of the
\* cell with order in (oldOrder, destOrder] lose one, those with order in
\* [destOrder, oldOrder) gain one, and every other job of the cell keeps its
\* order.
C6_ShiftTheGap ==
  IsIntraCell =>
    \A i \in DestOthers :
      LET o == pre[i].order
          down == last.order > OldJob.order /\ o > OldJob.order /\ o <= last.order
          up == last.order < OldJob.order /\ o >= last.order /\ o < OldJob.order
      IN /\ ~(down /\ up)
         /\ down => jobs[i].order = o - 1
         /\ up => jobs[i].order = o + 1
         /\ (~down /\ ~up) => jobs[i].order = o

\* the last job of a three-job cell moved to the front: 0, 1 become 1, 2
C6_Witness ==
  /\ IsIntraCell
  /\ CellOrders(pre, DestCell) = {0, 1, 2}
  /\ OldJob.order = 2
  /\ last.order = 0
  /\ {jobs[i].order : i \in DestOthers} = {1, 2}

\* C7: a move keeps the number of jobs; it changes of the moved job only
\* editorId, scheduledDate and order, of the other jobs of the destination
\* cell only the order, and no other job at all.
C7_MoveFrame ==
  IsMove =>
    /\ Len(jobs) = Len(pre)
    /\ \A i \in 1..Len(pre) :
         IF i = MovedIdx
         THEN jobs[i] = [pre[i] EXCEPT !.editorId = last.editorId,
                                       !.scheduledDate = last.scheduledDate,
                                       !.order = last.order]
         ELSE IF i \in DestOthers
              THEN jobs[i] = [pre[i] EXCEPT !.order = jobs[i].order]
              ELSE jobs[i] = pre[i]

\* a job leaves a cell whose other job stays behind at order 1, and a job with
\* the destination's editor and day but another week sits at the target place
C7_Witness ==
  /\ IsCrossCell
  /\ OldJob.order = 0
  /\ \E i \in CellIdx(pre, CellOf(OldJob)) : pre[i].order = 1 /\ jobs[i].order = 1
  /\ \E i \in 1..Len(pre) :
       /\ pre[i].editorId = last.editorId
       /\ pre[i].scheduledDate = last.scheduledDate
       /\ pre[i].weekStart # OldJob.weekStart
       /\ pre[i].order >= last.order

\* C9: a moveJob of a job the collection does not hold leaves the collection
\* as it was, raises nothing and puts no request in flight.
C9_UnknownJobNoOp ==
  (last.phase = "invoke" /\ last.op = "moveJob"
     /\ ~\E i \in 1..Len(pre) : pre[i].id = last.id)
    => /\ jobs = pre
       /\ last.notice = "none"
       /\ pending = {}

\* an unknown job moved on a collection that holds two jobs
C9_Witness ==
  /\ last.phase = "invoke"
  /\ last.op = "moveJob"
  /\ Len(pre) = 2
  /\ \A i \in 1..Len(pre) : pre[i].id # last.id

\* C4: after a moveJob to a place within the destination cell's listing, the
\* moved job stands at the requested place of the listing sorted by order.
C4_DestOrderIsDisplayIndex ==
  (IsMove /\ last.order <= Cardinality(DestOthers))
    => ListIndex(jobs, DestCell, MovedIdx) = last.order

\* C1: with every request settled successfully, every cell of the local
\* collection has the orders 0..n-1, one job each.
C1_CellsContiguousWhenSettled ==
  pending = {} => AllContiguous(jobs)

\* C8: two jobs other than the moved one that share a cell after a move and
\* had distinct orders before it compare by order as they did before.
C8_BystandersKeepRelativeOrder ==
  IsMove =>
    \A i, k \in (1..Len(pre)) \ {MovedIdx} :
      (CellOf(jobs[i]) = CellOf(jobs[k]) /\ pre[i].order # pre[k].order)
        => ((pre[i].order < pre[k].order) <=> (jobs[i].order < jobs[k].order))

\* The operations that change local state before they persist.
OptimisticOps ==
  {"updateJob", "deleteJob", "moveJob", "updateEditor", "deleteEditor",
   "reassignEditorJobs"}

\* C10: when the persistence request of an optimistic operation fails, the
\* handler that awaited it invokes fetchData.
C10_FailureLeadsToReload ==
  (last.phase = "settle" /\ last.op \in OptimisticOps
     /\ last.outcome \in {"error", "reject"})
    => last.reload

\* ------------------------------------------------ getEditorCapacity alone
\* The board asks for the load of each editor it shows, on every render.
\* The jobs are two of editor e1 in the selected week with any integer
\* hours, one of e1 in another week and one of another editor; e1 is either
\* unknown to the editors collection or in it with some capacity.
BoardCapacities == {0, 8, 20, 40}

InitCapacity ==
  \E h1, h2 \in 0..MaxHours, c \in BoardCapacities, known \in BOOLEAN :
    /\ user = "u1"
    /\ currentWeekStartStr = "w1"
    /\ jobs = <<Job(1, "e1", 0, "w1", h1, 0), Job(2, "e1", 1, "w1", h2, 0),
                Job(3, "e1", 0, "w2", MaxHours, 0), Job(4, "e2", 0, "w1", MaxHours, 0)>>
    /\ editors = IF known THEN <<Editor("e1", c), Editor("e2", 40)>>
                 ELSE <<Editor("e2", 40)>>
    /\ dbJobs = {jobs[i] : i \in 1..Len(jobs)}
    /\ dbEditors = editors
    /\ pending = {}
    /\ nextId = Len(jobs) + 1
    /\ ops = 0
    /\ pre = jobs
    /\ last = NoStep

\* a render: getEditorCapacity(editorId) is called and its result shown
showCapacity(editorId) ==
  /\ last' = Step("render", "getEditorCapacity", -1, editorId, -1, -1, "none",
                  "none", FALSE)
               @@ [capacity |-> getEditorCapacity(editorId)]
  /\ pre' = jobs
  /\ UNCHANGED <<user, currentWeekStartStr, jobs, editors, dbJobs, dbEditors,
                 pending, nextId, ops>>

NextCapacity ==
  \/ \E e \in EditorIds : showCapacity(e)
  \/ \E w \in Weeks : ops < MaxOps /\ goToWeek(w)

SpecCapacity == InitCapacity /\ [][NextCapacity]_vars

\* The last step was the invocation of the given handler.
Invoked(op) == last.phase = "invoke" /\ last.op = op

\* The last step was the failure of the request the given handler awaited.
Failed(op) ==
  last.phase = "settle" /\ last.op = op /\ last.outcome \in {"error", "reject"}

\* A fetchData stands at its first await.
ReloadStarted ==
  \E r \in pending : r.op = "fetchData" /\ r.stage = "editors"

\* The last step was the successful end of a fetchData.
Reloaded ==
  last.phase = "settle" /\ last.op = "jobsAll" /\ last.outcome = "ok"

\* C11: updateJob and deleteJob change the local collection when invoked,
\* with their request still in flight; when the request fails the failure
\* notice is raised and fetchData is invoked; and when a fetchData ends
\* successfully the local collection holds the rows of the jobs table.
C11_JobRollback ==
  /\ Invoked("updateJob") =>
       /\ Len(jobs) = Len(pre)
       /\ \A i \in 1..Len(pre) :
            jobs[i] = IF pre[i].id = last.id THEN MergeJob(pre[i], last) ELSE pre[i]
       /\ \E r \in pending : r.op = "updateJob" /\ r.n = ops - 1 /\ r.id = last.id
  /\ Invoked("deleteJob") =>
       /\ \A i \in 1..Len(jobs) : jobs[i].id # last.id
       /\ jobs = SelectSeq(pre, LAMBDA j : j.id # last.id)
       /\ \E r \in pending : r.op = "deleteJob" /\ r.n = ops - 1 /\ r.id = last.id
  /\ (Failed("updateJob") \/ Failed("deleteJob")) =>
       /\ last.notice = "error"
       /\ last.reload
       /\ ReloadStarted
  /\ Reloaded =>
       /\ {jobs[i] : i \in 1..Len(jobs)} = dbJobs
       /\ Len(jobs) = Cardinality(dbJobs)

\* the only invocation of the run was a deleteJob, and a reload has brought
\* the removed job back: the collection holds one job more than before it
C11_Witness ==
  /\ Reloaded
  /\ ops = 1
  /\ Len(pre) = Cardinality(dbJobs) - 1
  /\ Len(jobs) = Cardinality(dbJobs)
  /\ pending = {}

\* The operations on editors and the bulk reassignment.
EditorOps == {"updateEditor", "deleteEditor", "reassignEditorJobs"}

\* C12: when the request of updateEditor, deleteEditor or reassignEditorJobs
\* fails, by an error result or by a rejection, the handler invokes fetchData
\* and raises no success notice.
C12_EditorOpsReload ==
  (\E op \in EditorOps : Failed(op))
    => /\ last.reload
       /\ ReloadStarted
       /\ last.notice # "success"


\* C13: with every request settled successfully, the jobs table holds for
\* every local job a row with the same editor, day, week and order.
C13_BackendConverges ==
  pending = {} =>
    \A i \in 1..Len(jobs) :
      \E row \in dbJobs :
        /\ row.id = jobs[i].id
        /\ row.editorId = jobs[i].editorId
        /\ row.scheduledDate = jobs[i].scheduledDate
        /\ row.weekStart = jobs[i].weekStart
        /\ row.order = jobs[i].order

\* C14: an addEditor invoked with the editor count at or above the limit of
\* the plan (10 for plan_type pro, 2 otherwise, also when the lookup of the
\* profile fails) throws PLAN_LIMIT_REACHED when the lookup returns, sends no
\* insert and leaves the local editors and the editors table as they were.
C14_PlanLimitRejects ==
  LET limit == IF last.outcome = "pro" THEN 10 ELSE 2 IN
  (last.phase = "settle" /\ last.op = "profile" /\ last.order >= limit)
    => /\ last.notice = "PLAN_LIMIT_REACHED"
       /\ pending = {}
       /\ editors = EditorsOf(last.order)
       /\ dbEditors = editors

\* a third editor on the free plan
C14_Witness ==
  /\ last.phase = "settle"
  /\ last.op = "profile"
  /\ last.outcome = "free"
  /\ last.order = 2
  /\ Len(editors) = 2
  /\ last.notice = "PLAN_LIMIT_REACHED"

\* C15: deleteEditor removes the editor, and nothing else, from the local
\* editors and leaves the local jobs as they are, when it is invoked and when
\* its request returns, whatever the result.
C15_DeleteEditorLeavesJobs ==
  [][/\ (last'.phase = "invoke" /\ last'.op = "deleteEditor") =>
          /\ jobs' = jobs
          /\ editors' = SelectSeq(editors, LAMBDA e : e.id # last'.editorId)
     /\ (last'.phase = "settle" /\ last'.op = "deleteEditor") =>
          /\ jobs' = jobs
          /\ editors' = editors]_vars

\* the delete of an editor has succeeded, and both jobs still name the editor
C15_Witness ==
  /\ last.phase = "settle"
  /\ last.op = "deleteEditor"
  /\ last.outcome = "ok"
  /\ \A i \in 1..Len(editors) : editors[i].id # last.editorId
  /\ \A i \in 1..Len(dbEditors) : dbEditors[i].id # last.editorId
  /\ Len(jobs) = 2
  /\ \A i \in 1..Len(jobs) : jobs[i].editorId = last.editorId

\* C17: an addJob adds nothing locally when invoked; when its insert fails
\* the local jobs are as before, the failure notice is raised and no
\* fetchData is invoked; without a user it sends no request and nothing
\* changes.
C17_FailedAddLeavesNoTrace ==
  /\ Invoked("addJob") => jobs = pre
  /\ Failed("addJob") =>
       /\ jobs = pre
       /\ last.notice = "error"
       /\ ~last.reload
       /\ ~\E r \in pending : r.op = "fetchData"
       /\ \A row \in dbJobs :
            \/ \E i \in 1..Len(Board) : Board[i].id = row.id
            \/ \E k \in 1..Len(jobs) : jobs[k].id = row.id
  /\ user = NoUser =>
       /\ pending = {}
       /\ jobs = <<>>
       /\ dbJobs = {Board[i] : i \in 1..Len(Board)}
       /\ last.notice = "none"

\* the insert of a job for the board's two-job cell has failed
C17_Witness ==
  /\ Failed("addJob")
  /\ last.order = 2
  /\ jobs = Board
  /\ pending = {}

\* C18: each of the six optimistic handlers, when invoked, changes the local
\* collections as its updater maps the state all earlier invocations left,
\* and its request is in flight afterwards, whatever else is in flight.
C18_LocalCommitPrecedesAck ==
  [][(ops' = ops + 1 /\ last'.op \in OptimisticOps) =>
       \E r \in pending' \ pending :
         /\ r.op = last'.op
         /\ r.n = ops
         /\ pending' = pending \cup {r}
         /\ r.op = "updateJob" =>
              /\ jobs' = [i \in 1..Len(jobs) |->
                            IF jobs[i].id = r.id THEN MergeJob(jobs[i], r) ELSE jobs[i]]
              /\ editors' = editors
         /\ r.op = "deleteJob" =>
              /\ jobs' = SelectSeq(jobs, LAMBDA j : j.id # r.id)
              /\ editors' = editors
         /\ r.op = "moveJob" =>
              /\ jobs' = planMove(jobs, r.id, r.editorId, r.scheduledDate, r.order)
              /\ editors' = editors
         /\ r.op = "updateEditor" =>
              /\ editors' = [i \in 1..Len(editors) |->
                               IF editors[i].id = r.editorId
                               THEN Editor(editors[i].id, r.arg) ELSE editors[i]]
              /\ jobs' = jobs
         /\ r.op = "deleteEditor" =>
              /\ editors' = SelectSeq(editors, LAMBDA e : e.id # r.editorId)
              /\ jobs' = jobs
         /\ r.op = "reassignEditorJobs" =>
              /\ jobs' = [i \in 1..Len(jobs) |->
                            IF jobs[i].editorId = r.from
                            THEN [jobs[i] EXCEPT !.editorId = r.editorId]
                            ELSE jobs[i]]
              /\ editors' = editors]_vars

\* a deleteJob invoked on top of a move that is still in flight: the job
\* left is at the order the move gave it, which the table does not hold yet
C18_Witness ==
  /\ Invoked("deleteJob")
  /\ \E r \in pending : r.op = "moveJob" /\ r.id # last.id
  /\ \E r \in pending : r.op = "deleteJob" /\ r.id = last.id
  /\ Len(jobs) = 1
  /\ \E row \in dbJobs : row.id = jobs[1].id /\ row.order # jobs[1].order

\* C16: the job a successful addJob appends has as its order the number of
\* jobs its cell holds when it is appended.
C16_OrderIsCountAtAppend ==
  (last.phase = "settle" /\ last.op = "addJob" /\ last.outcome = "ok")
    => LET newJob == jobs[Len(jobs)]
       IN newJob.order = Cardinality(CellIdx(pre, CellOf(newJob)))

\* C19: a fetchData that ends successfully leaves as the local jobs the rows
\* of the jobs table and as the local editors the rows its select of the
\* editors returned; a fetchData that fails has changed neither collection;
\* and without a user both collections are empty.
C19_ReloadOverwrites ==
  [][/\ \A r \in pending \ pending' :
          (r.op = "fetchData" /\ last'.phase = "settle" /\ last'.op = r.stage) =>
            /\ (r.stage = "jobsAll" /\ last'.outcome = "ok") =>
                 /\ jobs' = RowsById(dbJobs)
                 /\ editors' = r.editorsData
            /\ last'.notice = "error" =>
                 /\ jobs' = jobs
                 /\ editors' = editors
                 /\ r.stage # "editors" => r.editorsData = r.editorsWere
     /\ user' = NoUser => (jobs' = <<>> /\ editors' = <<>>)]_vars

\* C20: for integer hours getEditorCapacity gives the percentage 100 * H / C,
\* capped at 100 and rounded to the nearest integer with halves going up,
\* where H is the sum of the hours of the editor's jobs of the selected week
\* and C the editor's weeklyCapacity, or 40 when the editor is unknown or its
\* capacity is 0; the result lies in 0..100.
C20_LoadPercentage ==
  last.op = "getEditorCapacity" =>
    LET mine == {i \in 1..Len(jobs) : /\ jobs[i].editorId = last.editorId
                                      /\ jobs[i].weekStart = currentWeekStartStr}
        H == TotalHours([i \in 1..Len(jobs) |->
                           IF i \in mine THEN jobs[i]
                           ELSE [jobs[i] EXCEPT !.estimatedHours = 0]])
        own == {editors[i].weeklyCapacity : i \in {k \in 1..Len(editors) :
                                                    editors[k].id = last.editorId}}
        C == IF own = {} \/ own = {0} THEN 40 ELSE CHOOSE c \in own : TRUE
    IN /\ last.capacity = (IF H >= C THEN 100 ELSE (200 * H + C) \div (2 * C))
       /\ last.capacity \in 0..100

\* C21: on an account that starts with no more editors than its plan allows
\* (2 free, 10 pro), however addEditor invocations interleave, neither the
\* local editors nor the editor rows of the backend exceed the plan's limit.
C21_EditorCountWithinPlan ==
  /\ Len(editors) <= PlanLimit(ProfilePlan(user))
  /\ Len(dbEditors) <= PlanLimit(ProfilePlan(user))

\* C22: from a collection in which no two jobs of a cell share an order,
\* after any sequence of moveJob operations no two jobs of a cell share an
\* order and no order is negative.
C22_NoDuplicatePositions ==
  /\ \A i, k \in 1..Len(jobs) :
       (i # k /\ CellOf(jobs[i]) = CellOf(jobs[k])) => jobs[i].order # jobs[k].order
  /\ \A i \in 1..Len(jobs) : jobs[i].order >= 0

\* a move into a cell whose orders have a gap, to an order beyond the place
\* after its last job, that changed the order of another job of the cell
C22_Witness ==
  /\ Invoked("moveJob")
  /\ last.outcome = "moved"
  /\ LET c == <<last.editorId, last.scheduledDate, "w1">>
         others == {i \in CellIdx(pre, c) : pre[i].id # last.id}
     IN /\ CellOrders(pre, c) # 0..(Cardinality(CellIdx(pre, c)) - 1)
        /\ last.order > Cardinality(others)
        /\ \E i \in others : jobs[i].order # pre[i].order

\* C23: startCheckout sends no request for a user without email; a response
\* whose content type is not JSON ends in the endpoint-not-found notice,
\* without the Checkout Error notice and without a redirect; a JSON response
\* with a status outside 2xx ends in the Checkout Error notice with the
\* error text of the response and without a redirect; window.location.href
\* is set only to the checkoutUrl of a JSON response with a 2xx status; and
\* handlePlanClick starts no checkout for the starter plan or without a user.
C23_CheckoutOutcomes ==
  /\ ~HasEmail(user) => \A r \in pending : r.op # "startCheckout"
  /\ (last.phase = "settle" /\ last.op = "text")
       => last.notice = "Error 404" /\ last.href = ""
  /\ (last.phase = "settle" /\ last.op = "json" /\ ~ResOk(last.response.status))
       => /\ last.notice = "Checkout Error"
          /\ (last.outcome = "ok" /\ last.response.data.error # "")
               => last.message = last.response.data.error
          /\ last.href = ""
  /\ (last.phase = "settle" /\ last.op \in {"fetch", "text", "json"} /\ last.href # "")
       => /\ IsJson(last.response.contentType)
          /\ ResOk(last.response.status)
          /\ last.href = last.response.data.checkoutUrl
  /\ (last.op = "handlePlanClick" /\ (last.plan = "starter" \/ user = NoUser))
       => /\ last.outcome = "navigate"
          /\ \A r \in pending : r.op = "startCheckout" => r.n # ops - 1

====
